---- MODULE Spec2Model ----
(***************************************************************************)
(* A model of the boxedin agent: the sandboxed executor (sandbox.mjs), the *)
(* tool store (tools.mjs) and the agent loop (agent.mjs).                  *)
(*                                                                         *)
(* One action is one run-to-completion segment of the JavaScript event     *)
(* loop: the code between two awaits, or one event handler.  Strings are   *)
(* sequences of tokens, so that concatenation is \o.  Paths are sequences  *)
(* of segments relative to sandboxDir.                                     *)
(***************************************************************************)
EXTENDS Integers, Sequences, FiniteSets, TLC

VARIABLES
  cfgNetwork,   \* config.limits.network: "true", "false" or "absent"
  docker,       \* whether `docker --version` exits 0 on this host
  reporter,     \* whether the caller passed a reporter
  interactive,  \* the interactive argument of runAgentLoop
  disk,         \* the files below sandboxDir, as a set of paths
  sb,           \* the Sandbox.run call in progress (or the last one)
  child,        \* the child process of the latest _spawnWithLogs
  old,          \* the child spawned before it, whose streams may still deliver
  spawned,      \* the processes spawned by the Sandbox.run call in progress
  log,          \* the content of exec.log of the Sandbox.run call in progress
  logErrors,    \* writes attempted on an exec.log stream after its end()
  cbOut,        \* chunks given to onStdout in the Sandbox.run call in progress
  cbErr,        \* chunks given to onStderr in the Sandbox.run call in progress
  events,       \* the events given to the reporter, in order
  chunksLeft,   \* output chunks the children may still produce
  faultsLeft,   \* failures the environment may still produce
  pc,           \* the await at which runAgentLoop stands
  outcome,      \* "running", "returned" or "thrown"
  plan,         \* the plan in use
  todoTools,    \* the createTools specs not yet processed
  todoRuns,     \* the run entries not yet processed
  tools,        \* the in-memory catalog: id -> manifest
  manifests,    \* the manifest.json files on disk: id -> manifest
  created,      \* result.created
  createdFiles, \* result.createdFiles: id -> file keys
  runs,         \* result.runs
  runIndex,     \* runIndex: id -> latest run record
  lastRun,      \* lastRun, a sequence of zero or one run record
  cur,          \* the locals of the RunCall in progress: call, id, args, stdin, res
  calls,        \* per RunCall in progress: sandbox runs started, patches requested
  memory,       \* the Memory object given to runAgentLoop
  memFile,      \* the content of memory.json
  answer,       \* result.answer, a sequence of zero or one text
  clock,        \* Date.now()
  file,         \* memory.json as concurrent requests see it: whether it exists, its text
  req,          \* the concurrent requests: where each stands, and its Memory
  lastSaver,    \* the request whose saveMemory completed last (0: none)
  summary       \* the last call of summarizeHistory: its maxTurns, what it returned

sbVars == <<sb, child, old, spawned, log, logErrors, cbOut, cbErr, chunksLeft>>
storeVars == <<file, req, lastSaver>>
envVars == <<cfgNetwork, docker, reporter, interactive, storeVars, summary>>
agentVars == <<pc, outcome, plan, todoTools, todoRuns, tools, manifests, created,
               createdFiles, runs, runIndex, lastRun, cur, calls, memory, memFile,
               answer, clock>>
vars == <<envVars, disk, sbVars, events, faultsLeft, agentVars>>

\* ---------------------------------------------------------------- bounds
MaxChunks == 1
MaxFaults == 1
MaxClock == 1
MaxRequests == 2
MaxHistory == 2
MaxTurns == 2

\* ------------------------------------------------------------- JS values
JsNull == [t |-> "null", v |-> 0]
JsNum(n) == [t |-> "num", v |-> n]
IsInteger(x) == x.t = "num"
\* a test that takes every exit code for a failure
AnyCode(x) == TRUE
\* res.code !== 0
NonZero(x) == ~(x.t = "num" /\ x.v = 0)

ExitCodes == {0, 1}
Languages == {"python", "node"}
EmptyMap == [i \in {} |-> 0]
NoChild == [alive |-> FALSE, late |-> FALSE, timer |-> FALSE, killed |-> FALSE,
            kind |-> "none", n |-> 0, resolveCalls |-> 0,
            promise |-> [settled |-> FALSE]]

\* ------------------------------------------------------------------ path
\* path.join / path.normalize on segments: ".." removes the segment before it
RECURSIVE NormalizeOnto(_, _)
NormalizeOnto(stack, segs) ==
  IF segs = <<>> THEN stack
  ELSE LET s == Head(segs) IN
       IF s = ".." /\ stack # <<>> /\ stack[Len(stack)] # ".."
       THEN NormalizeOnto(SubSeq(stack, 1, Len(stack) - 1), Tail(segs))
       ELSE NormalizeOnto(Append(stack, s), Tail(segs))
PathJoin(a, b) == NormalizeOnto(<<>>, a \o b)
Dirname(p) == IF p = <<>> THEN <<>> ELSE SubSeq(p, 1, Len(p) - 1)
PathExists(p) == p \in disk

\* ---------------------------------------------------------------- sandbox
\* one of the failures the environment may produce
Fault == faultsLeft > 0 /\ faultsLeft' = faultsLeft - 1

\* constructor: { ..., network: false, ...limits }
SandboxNetwork == IF cfgNetwork = "absent" THEN "false" ELSE cfgNetwork

\* what a missing interpreter / a missing module prints, per language
MissingModuleText(language) ==
  IF language = "python" THEN "ModuleNotFoundError" ELSE "CannotFindModule"
ErrText == "Error: spawn"

Promise0 == [settled |-> FALSE, value |-> [code |-> JsNull, stdout |-> <<>>, stderr |-> <<>>]]
\* resolve(v) of a Promise: the first call settles it, later calls do nothing
PromiseResolve(p, v) == IF p.settled THEN p ELSE [settled |-> TRUE, value |-> v]

\* _spawnWithLogs up to the end of the Promise executor
NewChild(kind, hasOn) ==
  [alive |-> TRUE, late |-> FALSE, kind |-> kind, hasOn |-> hasOn, id |-> sb.id,
   stdout |-> <<>>, stderr |-> <<>>, outEnded |-> FALSE, timer |-> TRUE,
   killed |-> FALSE, resolveCalls |-> 0, promise |-> Promise0,
   n |-> sb.n, report |-> sb.report, language |-> sb.language]

\* a child whose promise has settled and that still has an event to deliver: a
\* data event after its exit, or the exit after its error
Lingers(c) == c.late \/ (c.alive /\ c.promise.settled)

\* line 52: if (this.limits.network === false) argsDocker.push('--network', 'none')
NetworkNoneArg == SandboxNetwork = "false"
\* an install gate that reads the caller's config instead of the merged limits
RawInstallAllowed == cfgNetwork # "false"
\* lines 54 and 73: if (this.limits.network !== false) { ...install... }
InstallAllowed == SandboxNetwork # "false"
NeedsInstall(language, hasPyReq, hasNodePkg) ==
  InstallAllowed /\ (  (language = "python" /\ hasPyReq)
                    \/ (language = "node" /\ hasNodePkg))
\* the spawn() of one process: the container flags it carries
SpawnRec(kind) ==
  [kind |-> kind, docker |-> docker, netNone |-> docker /\ NetworkNoneArg]

Sb0 == [phase |-> "idle", n |-> 0, id |-> "none", language |-> "node", entry |-> <<>>,
        hasOn |-> FALSE, report |-> FALSE, hasPyReq |-> FALSE, hasNodePkg |-> FALSE,
        result |-> Promise0.value]

\* the caller's sandbox.run({language, entry, ..., onStdout, onStderr})
SbCall(id, language, entry, hasOn, report) ==
  [phase |-> "ensure", n |-> sb.n + 1, id |-> id, language |-> language, entry |-> entry,
   hasOn |-> hasOn, report |-> report, hasPyReq |-> FALSE, hasNodePkg |-> FALSE,
   result |-> Promise0.value]

\* no event is delivered between resolve() and the awaiting caller's continuation
NoContinuationPending == sb.phase \notin {"resolved", "rejected"}
\* the events of children that have settled are delivered before anything else
NoLingering == ~Lingers(child) /\ ~Lingers(old)

\* Sandbox.run lines 32-41; an fs error rejects the call
SbEnsure ==
  /\ sb.phase = "ensure" /\ NoLingering
  /\ LET toolDir == Dirname(PathJoin(<<>>, sb.entry)) IN
     \/ /\ sb' = [sb EXCEPT !.phase = "probe",
                            !.hasPyReq = PathExists(Append(toolDir, "requirements.txt")),
                            !.hasNodePkg = PathExists(Append(toolDir, "package.json"))]
        /\ spawned' = <<[kind |-> "probe", docker |-> FALSE, netNone |-> FALSE]>>
        /\ UNCHANGED faultsLeft
     \/ /\ faultsLeft > 0
        /\ faultsLeft' = faultsLeft - 1
        /\ sb' = [sb EXCEPT !.phase = "rejected"]
        /\ spawned' = <<>>
  /\ log' = <<>> /\ cbOut' = <<>> /\ cbErr' = <<>>
  /\ UNCHANGED <<child, old, logErrors, chunksLeft, disk, events>>
  /\ UNCHANGED <<envVars, agentVars>>

\* Sandbox.run lines 44-83 up to the first _spawnWithLogs
SbProbe ==
  /\ sb.phase = "probe" /\ NoLingering
  /\ LET kind == IF NeedsInstall(sb.language, sb.hasPyReq, sb.hasNodePkg)
                 THEN "install" ELSE "main" IN
     /\ sb' = [sb EXCEPT !.phase = kind]
     /\ spawned' = Append(spawned, SpawnRec(kind))
     /\ child' = NewChild(kind, sb.hasOn)
     /\ old' = IF Lingers(child) THEN child ELSE NoChild
  /\ UNCHANGED <<log, logErrors, cbOut, cbErr, chunksLeft, faultsLeft, disk, events>>
  /\ UNCHANGED <<envVars, agentVars>>

\* the chunks a child of the given kind may print
Chunks(kind, language) ==
  IF kind = "install"
  THEN {[stream |-> "stdout", tok |-> "pip"]}
  ELSE {[stream |-> "stdout", tok |-> "out"],
        [stream |-> "stderr", tok |-> MissingModuleText(language)]}

\* lines 92-93, the closure's part: stdout += s
DataOn(c, ch) ==
  IF ch.stream = "stdout" THEN [c EXCEPT !.stdout = Append(@, ch.tok)]
                          ELSE [c EXCEPT !.stderr = Append(@, ch.tok)]

\* lines 92-93, p.stdout.on('data') / p.stderr.on('data') of the child in slot
\* c; inCall tells whether c belongs to the Sandbox.run call in progress
OnData(c, ch, inCall) ==
  /\ IF c.outEnded
     THEN logErrors' = logErrors + 1 /\ UNCHANGED log
     ELSE log' = Append(log, ch.tok) /\ UNCHANGED logErrors
  /\ IF c.hasOn /\ inCall /\ ch.stream = "stdout"
     THEN cbOut' = Append(cbOut, ch.tok) ELSE UNCHANGED cbOut
  /\ IF c.hasOn /\ inCall /\ ch.stream = "stderr"
     THEN cbErr' = Append(cbErr, ch.tok) ELSE UNCHANGED cbErr
  /\ IF c.hasOn /\ c.report
     THEN events' = Append(events, [type |-> "runChunk", id |-> c.id])
     ELSE UNCHANGED events

ChildData ==
  /\ NoContinuationPending /\ NoLingering
  /\ child.alive /\ chunksLeft > 0
  /\ chunksLeft' = chunksLeft - 1
  /\ \E ch \in Chunks(child.kind, child.language) :
       /\ OnData(child, ch, child.n = sb.n)
       /\ child' = DataOn(child, ch)
  /\ UNCHANGED <<sb, old, spawned, faultsLeft, disk>>
  /\ UNCHANGED <<envVars, agentVars>>

\* a data event delivered after the 'exit' event of its child
LateData ==
  /\ NoContinuationPending
  /\ \/ /\ child.late
        /\ \E ch \in Chunks(child.kind, child.language) :
             /\ OnData(child, ch, child.n = sb.n)
             /\ child' = [DataOn(child, ch) EXCEPT !.late = FALSE]
        /\ UNCHANGED old
     \/ /\ old.late
        /\ \E ch \in Chunks(old.kind, old.language) :
             /\ OnData(old, ch, old.n = sb.n)
             /\ old' = [DataOn(old, ch) EXCEPT !.late = FALSE]
        /\ UNCHANGED child
  /\ UNCHANGED <<sb, spawned, chunksLeft, faultsLeft, disk>>
  /\ UNCHANGED <<envVars, agentVars>>

\* lines 96-100: p.on('exit', (code) => {clearTimeout; out.end(); resolve({code, ...})})
ExitHandler(c, code, late) ==
  [c EXCEPT !.timer = FALSE, !.outEnded = TRUE, !.alive = FALSE, !.late = late,
            !.resolveCalls = @ + 1,
            !.promise = PromiseResolve(@, [code |-> code, stdout |-> c.stdout,
                                           stderr |-> c.stderr])]

\* lines 101-105: p.on('error', (err) => {...; resolve({code: -1, stderr: String(err)})});
\* 'exit' may or may not be emitted after 'error'
ErrorHandler(c, exitFollows) ==
  [c EXCEPT !.timer = FALSE, !.outEnded = TRUE, !.alive = exitFollows, !.late = FALSE,
            !.resolveCalls = @ + 1,
            !.promise = PromiseResolve(@, [code |-> JsNum(-1), stdout |-> c.stdout,
                                           stderr |-> <<ErrText>>])]

\* line 91: setTimeout(() => { p.kill('SIGKILL'); }, this.limits.timeoutMs)
NoKill(c) == [c EXCEPT !.timer = FALSE]
TimeoutHandler(c) == [c EXCEPT !.timer = FALSE, !.killed = TRUE]

\* what follows the settling of the promise of the current child c, now c2:
\* Sandbox.run goes on to the main spawn (lines 59-67, 76-83), or returns
Settled(c2) ==
  IF c2.kind = "install"
  THEN /\ sb' = [sb EXCEPT !.phase = "main"]
       /\ spawned' = Append(spawned, SpawnRec("main"))
       /\ child' = NewChild("main", sb.hasOn)
       /\ old' = IF Lingers(c2) THEN c2 ELSE NoChild
  ELSE /\ sb' = [sb EXCEPT !.phase = "resolved", !.result = c2.promise.value]
       /\ child' = c2
       /\ UNCHANGED <<old, spawned>>

\* whether a data event is still in the pipe when 'exit' is emitted
LateChoice == IF chunksLeft > 0 THEN BOOLEAN ELSE {FALSE}
Reserve(late) == chunksLeft' = IF late THEN chunksLeft - 1 ELSE chunksLeft

ChildExit ==
  /\ NoContinuationPending /\ NoLingering
  /\ child.alive /\ ~child.killed
  /\ \E code \in ExitCodes, late \in LateChoice :
       Settled(ExitHandler(child, JsNum(code), late)) /\ Reserve(late)
  /\ UNCHANGED <<log, logErrors, cbOut, cbErr, faultsLeft, disk, events>>
  /\ UNCHANGED <<envVars, agentVars>>

\* the exit of a child killed by a signal: code is null
ChildKilledExit ==
  /\ NoContinuationPending /\ NoLingering
  /\ child.alive /\ child.killed
  /\ \E late \in LateChoice : Settled(ExitHandler(child, JsNull, late)) /\ Reserve(late)
  /\ UNCHANGED <<log, logErrors, cbOut, cbErr, faultsLeft, disk, events>>
  /\ UNCHANGED <<envVars, agentVars>>

ChildError ==
  /\ NoContinuationPending /\ NoLingering
  /\ child.alive /\ ~child.killed
  /\ child.stdout = <<>> /\ child.stderr = <<>>
  /\ Fault
  /\ \E exitFollows \in BOOLEAN : Settled(ErrorHandler(child, exitFollows))
  /\ UNCHANGED <<log, logErrors, cbOut, cbErr, chunksLeft, disk, events>>
  /\ UNCHANGED <<envVars, agentVars>>

TimerFire ==
  /\ NoContinuationPending /\ NoLingering
  /\ child.timer /\ child.alive
  /\ child' = TimeoutHandler(child)
  /\ UNCHANGED <<sb, old, spawned, log, logErrors, cbOut, cbErr, chunksLeft, faultsLeft,
                 disk, events>>
  /\ UNCHANGED <<envVars, agentVars>>

\* the 'exit' that follows the 'error' of a child
LateExit ==
  /\ NoContinuationPending
  /\ \/ /\ child.alive /\ child.promise.settled
        /\ \E code \in ExitCodes : child' = ExitHandler(child, JsNum(code), FALSE)
        /\ UNCHANGED old
     \/ /\ old.alive /\ old.promise.settled
        /\ \E code \in ExitCodes : old' = ExitHandler(old, JsNum(code), FALSE)
        /\ UNCHANGED child
  /\ UNCHANGED <<sb, spawned, log, logErrors, cbOut, cbErr, chunksLeft, faultsLeft,
                 disk, events>>
  /\ UNCHANGED <<envVars, agentVars>>

SandboxStep ==
  \/ SbEnsure \/ SbProbe
  \/ ChildData \/ ChildExit \/ ChildKilledExit \/ ChildError \/ TimerFire
  \/ LateData \/ LateExit

\* ------------------------------------------------------------- tool store
Rel(segs) == [abs |-> FALSE, segs |-> segs]
Abs(segs) == [abs |-> TRUE, segs |-> segs]
ToolsDir(toolId) == <<"tools", toolId>>

\* writeToolCode line 31: const abs = path.join(toolsDir, rel); an absolute rel
\* is joined like a relative one
FileTarget(toolId, f) == PathJoin(ToolsDir(toolId), f.segs)
\* writeToolCode lines 27-36, the files it writes
WriteToolCode(toolId, files) == {FileTarget(toolId, f) : f \in files}

\* a schema that takes every manifest
AnyManifest(m) == TRUE
\* ToolManifest.parse lines 5-16: language is z.enum(['python', 'node'])
ManifestValid(m) == m.language \in Languages

\* loadTools lines 38-55: the ids with a manifest.json that parses
LoadTools == [id \in {i \in DOMAIN manifests : ManifestValid(manifests[i])} |-> manifests[id]]

\* ----------------------------------------------------------------- plans
Lit(tok) == [isString |-> TRUE, parts |-> <<[k |-> "lit", id |-> tok, f |-> ""]>>]
Tpl(k, id, f) == [isString |-> TRUE, parts |-> <<[k |-> k, id |-> id, f |-> f]>>]
Empty == [isString |-> TRUE, parts |-> <<>>]
\* "x${runs.ghost.stdout}y${env.HOME}": literals around expressions
Mixed == [isString |-> TRUE,
          parts |-> <<[k |-> "lit", id |-> "x", f |-> ""],
                      [k |-> "runs", id |-> "ghost", f |-> "stdout"],
                      [k |-> "lit", id |-> "y", f |-> ""],
                      [k |-> "env", id |-> "HOME", f |-> ""]>>]
\* an argument that is no string (a JSON number)
NotString(v) == [isString |-> FALSE, parts |-> <<v>>]

SpecA == [id |-> "a", name |-> "A", language |-> "python", entry |-> <<"main.py">>,
          files |-> {Rel(<<"main.py">>)}, null |-> FALSE]
SpecB == [id |-> "b", name |-> "B", language |-> "", entry |-> <<>>,
          files |-> {Rel(<<"..", "..", "evil">>), Abs(<<"etc", "x">>)}, null |-> FALSE]
SpecC == [id |-> "c", name |-> "C", language |-> "ruby", entry |-> <<"main.rb">>,
          files |-> {Rel(<<"main.rb">>)}, null |-> FALSE]
SpecN == [id |-> "", name |-> "n", language |-> "node", entry |-> <<"index.mjs">>,
          files |-> {}, null |-> FALSE]
\* a ToolSpec whose manifest does not validate, under an id that every
\* JavaScript object inherits
SpecProto == [id |-> "constructor", name |-> "P", language |-> "ruby",
              entry |-> <<"main.rb">>, files |-> {}, null |-> FALSE]
\* the JSON value null as an element of createTools
SpecNull == [id |-> "null", name |-> "", language |-> "", entry |-> <<>>, files |-> {},
             null |-> TRUE]

Call(id) == [id |-> id, args |-> <<>>, hasStdin |-> FALSE, stdin |-> Empty]
CallIn(id, args, stdin) == [id |-> id, args |-> args, hasStdin |-> TRUE, stdin |-> stdin]

FallbackPlan == [plan |-> "fallback", createTools |-> <<>>, run |-> <<>>]
Plans ==
  { [plan |-> "none", createTools |-> <<>>, run |-> <<>>],
    [plan |-> "make a", createTools |-> <<SpecA>>,
     run |-> <<CallIn("a", <<Lit("x"), Mixed, NotString("5"), Tpl("runs", "a", "name")>>,
                      Lit("in"))>>],
    [plan |-> "reuse t0", createTools |-> <<>>,
     run |-> <<Call("ghost"), Call("t0")>>],
    [plan |-> "proto", createTools |-> <<>>, run |-> <<Call("constructor")>>],
    [plan |-> "null spec", createTools |-> <<SpecNull>>, run |-> <<>>],
    [plan |-> "make c run c", createTools |-> <<SpecC, SpecProto>>,
     run |-> <<Call("c"), Call("constructor")>>],
    [plan |-> "make b c n", createTools |-> <<SpecB, SpecC, SpecN>>,
     run |-> <<CallIn("b", <<Tpl("last", "", "")>>, Tpl("runs", "b", "code"))>>] }

\* the files a patch of the planner may name
PatchFiles == { {Rel(<<"main.py">>)}, {Rel(<<"..", "manifest.json">>)} }

\* a reply of the planner: a fenced json block and/or a {...} slice, each of
\* which parses as JSON or not
Texts(objs) ==
  [fence : {"none", "bad", "ok"}, brace : {"none", "bad", "ok"}, obj : objs]
NoJson == [ok |-> FALSE]
\* parseJsonBlocks lines 23-38
ParseJsonBlocks(text) ==
  IF text.fence = "ok" THEN [ok |-> TRUE, val |-> text.obj]
  ELSE IF text.brace = "ok" THEN [ok |-> TRUE, val |-> text.obj]
  ELSE NoJson

\* ---------------------------------------------------------------- memory
\* addHistory lines 39-41
AddHistory(m, role, content) ==
  [m EXCEPT !.history = Append(@, [role |-> role, content |-> content])]

\* a save that writes the defaults in place of the Memory
SaveDefaults(m) == [tools |-> {}, history |-> <<>>, runs |-> <<>>]
\* saveMemory lines 29-37: what is written to memory.json
SaveMemory(m) == [tools |-> m.tools, history |-> m.history, runs |-> m.runs]

\* JSON text as a sequence of tokens: an opening brace, the members, a closing
\* brace
Tok(k, v) == [k |-> k, v |-> v]
Open == Tok("{", "")
Close == Tok("}", "")
RECURSIVE SetToSeq(_)
SetToSeq(S) == IF S = {} THEN <<>>
               ELSE LET x == CHOOSE y \in S : TRUE IN <<x>> \o SetToSeq(S \ {x})
Toks(k, vs) == [i \in 1..Len(vs) |-> Tok(k, vs[i])]
\* JSON.stringify (fs.writeJson, line 36) of what saveMemory persists
Stringify(m) ==
  <<Open>> \o Toks("tool", SetToSeq(m.tools)) \o Toks("hist", m.history)
           \o Toks("run", m.runs) \o <<Close>>
IsBrace(t) == t.k \in {"{", "}"}
Vals(text, k) ==
  LET sel == SelectSeq(text, LAMBDA t : t.k = k) IN [i \in 1..Len(sel) |-> sel[i].v]
\* JSON.parse (fs.readJson, line 14): a text that is not one complete object
\* throws a SyntaxError
ParseJson(text) ==
  IF /\ Len(text) >= 2 /\ text[1] = Open /\ text[Len(text)] = Close
     /\ \A i \in 2..(Len(text) - 1) : ~IsBrace(text[i])
  THEN [ok |-> TRUE,
        val |-> [tools |-> {text[i].v : i \in {j \in 1..Len(text) : text[j].k = "tool"}},
                 history |-> Vals(text, "hist"), runs |-> Vals(text, "run")]]
  ELSE [ok |-> FALSE]

\* Array.prototype.slice(-n): the last n elements; -0 is 0, so slice(-0) is the
\* whole array
SliceLast(h, n) ==
  IF n = 0 THEN h
  ELSE SubSeq(h, (IF Len(h) > n THEN Len(h) - n ELSE 0) + 1, Len(h))
\* a summary that puts the placeholder before the whole history
SummarizeKeepingAll(m, maxTurns) ==
  <<[role |-> "system", content |-> "0 earlier turns omitted"]>> \o m.history
\* summarizeHistory lines 43-49: what it returns
SummarizeHistory(m, maxTurns) ==
  IF Len(m.history) <= maxTurns THEN m.history
  ELSE LET keep == SliceLast(m.history, maxTurns)
           omitted == Len(m.history) - Len(keep)
       IN <<[role |-> "system",
             content |-> ToString(omitted) \o " earlier turns omitted"]>> \o keep
NoSummary == [maxTurns |-> 0, out |-> <<>>]

\* defaultMemory lines 5-9
DefaultMemory == [tools |-> {}, history |-> <<>>, runs |-> <<>>]

\* fs.writeFile: open(file, 'w') creates or truncates the file ...
OnFile(text) == [exists |-> TRUE, text |-> text]
NoFile == [exists |-> FALSE, text |-> <<>>]
OpenTruncate == OnFile(<<>>)
\* ... and write(fd, text) puts the text at the descriptor's own position 0,
\* over what another descriptor may have written since the truncation
WriteAtStart(text, onFile) ==
  text \o (IF Len(onFile) > Len(text) THEN SubSeq(onFile, Len(text) + 1, Len(onFile))
           ELSE <<>>)

Requests == 1..MaxRequests
\* a request: its place, its Memory, and a record of its loadMemory: whether it
\* read the file, the text it read, the catalog at that time, what it returned,
\* and whether it returned before any save began
Req0 == [pc |-> "idle", mem |-> DefaultMemory, read |-> FALSE, seen |-> <<>>,
         cat |-> {}, loaded |-> DefaultMemory, early |-> FALSE, ran |-> FALSE]

\* ------------------------------------------------------------ agent loop
\* a loop that takes the network for allowed whatever the limits say
AlwaysAllowed == TRUE
\* line 175 (and 68): config.limits?.network !== false
NetworkAllowed == cfgNetwork # "false"

Report(ev) == IF reporter THEN events' = Append(events, ev) ELSE UNCHANGED events

T0 == [id |-> "t0", name |-> "T0", language |-> "python", entry |-> <<"main.py">>]
Disk0 == {<<"tools", "t0", "manifest.json">>, <<"tools", "t0", "main.py">>,
          <<"tools", "t0", "requirements.txt">>}
Cur0 == [call |-> Call("none"), id |-> "none", args |-> <<>>, stdin |-> <<>>,
         res |-> Promise0.value]
Calls0 == [sandboxRuns |-> 0, patchAsks |-> 0]

\* the callers of runAgentLoop: the web server, the one-shot CLI, the REPL
Modes == {[interactive |-> FALSE, reporter |-> TRUE],
          [interactive |-> FALSE, reporter |-> FALSE],
          [interactive |-> TRUE, reporter |-> FALSE]}

LoopInit ==
  /\ cfgNetwork \in {"true", "false", "absent"}
  /\ docker \in BOOLEAN
  /\ \E m \in Modes : interactive = m.interactive /\ reporter = m.reporter
  /\ disk = Disk0
  /\ manifests = [i \in {"t0"} |-> T0]
  /\ sb = Sb0 /\ child = NoChild /\ old = NoChild /\ spawned = <<>>
  /\ log = <<>> /\ logErrors = 0 /\ cbOut = <<>> /\ cbErr = <<>>
  /\ events = <<>>
  /\ chunksLeft = MaxChunks /\ faultsLeft = MaxFaults
  /\ pc = "start" /\ outcome = "running"
  /\ plan = FallbackPlan /\ todoTools = <<>> /\ todoRuns = <<>>
  /\ tools = EmptyMap /\ created = <<>> /\ createdFiles = EmptyMap
  /\ runs = <<>> /\ runIndex = EmptyMap /\ lastRun = <<>>
  /\ cur = Cur0 /\ calls = Calls0
  /\ memory = [tools |-> {"t0"}, history |-> <<>>, runs |-> <<>>]
  /\ memFile = [tools |-> {}, history |-> <<>>, runs |-> <<>>]
  /\ answer = <<>>
  /\ clock = 0
  /\ summary = NoSummary

Init ==
  /\ LoopInit
  /\ file = NoFile /\ req = [r \in Requests |-> Req0] /\ lastSaver = 0

\* the names every JavaScript object inherits from Object.prototype
ProtoKeys == {"constructor"}
\* lines 150-151: const t = tools[id]; if (!t) ...  A property read on the plain
\* object built by loadTools finds own entries and inherited members alike
Lookup(map, id) ==
  IF id \in DOMAIN map THEN "own"
  ELSE IF id \in ProtoKeys THEN "inherited" ELSE "missing"

Put(map, k, v) == [x \in DOMAIN map \cup {k} |-> IF x = k THEN v ELSE map[x]]
Min(a, b) == IF a < b THEN a ELSE b

\* an exception that leaves runAgentLoop
Throw ==
  /\ pc' = "done" /\ outcome' = "thrown"
  /\ UNCHANGED <<plan, todoTools, todoRuns, tools, manifests, created, createdFiles, runs,
                 runIndex, lastRun, cur, calls, memory, memFile, answer, clock>>

\* lines 58-64: ensureDir, new Sandbox, loadTools, addHistory(user)
AStart ==
  /\ pc = "start"
  /\ \/ Fault /\ Throw
     \/ /\ tools' = LoadTools
        /\ memory' = AddHistory(memory, "user", "goal")
        /\ pc' = "plan"
        /\ UNCHANGED <<faultsLeft, outcome, plan, todoTools, todoRuns, manifests, created,
                       createdFiles, runs, runIndex, lastRun, cur, calls, memFile, answer,
                       clock>>
  /\ UNCHANGED <<envVars, disk, sbVars, events>>

\* a refinement asked for whenever the plan runs nothing
NothingToRun(p) == p.run = <<>>
IsEmptyPlan(p) == p.createTools = <<>> /\ p.run = <<>>

\* lines 92-102: with a reporter or in interactive mode the loop prints each
\* tool spec (`Tool ${t.id || t.name}: ...`), which throws a TypeError on null
PlanEventsThrow(p, inter, rep) ==
  (inter \/ rep) /\ \E i \in 1..Len(p.createTools) : p.createTools[i].null
PlanOutcome(p, inter, rep) ==
  IF PlanEventsThrow(p, inter, rep) THEN "thrown" ELSE "running"

\* lines 83-103: the plan is settled; history entry, plan and createTools events
AcceptPlan(p) ==
  /\ plan' = p
  /\ memory' = AddHistory(memory, "assistant", "plan")
  /\ outcome' = PlanOutcome(p, interactive, reporter)
  /\ events' = IF reporter
               THEN events \o <<[type |-> "plan", id |-> ""]>>
                           \o (IF p.createTools # <<>>
                                  /\ ~PlanEventsThrow(p, interactive, reporter)
                               THEN <<[type |-> "createTools", id |-> ""]>> ELSE <<>>)
               ELSE events
  /\ IF PlanEventsThrow(p, interactive, reporter)
     THEN pc' = "done" /\ UNCHANGED <<todoTools, todoRuns>>
     ELSE /\ todoTools' = p.createTools
          /\ todoRuns' = p.run
          /\ pc' = IF p.createTools # <<>> THEN "materialize"
                   ELSE IF p.run # <<>> THEN "runchain" ELSE "answer"
  /\ UNCHANGED <<tools, manifests, created, createdFiles, runs, runIndex, lastRun,
                 cur, calls, memFile, answer, clock>>

\* lines 65-74: the reply to the planning call, of a planner that answers with
\* the plans of P
APlanOf(P) ==
  /\ pc = "plan"
  /\ \/ Fault /\ Throw /\ UNCHANGED events
     \/ /\ UNCHANGED faultsLeft
        /\ \E text \in Texts(P) :
             LET parsed == ParseJsonBlocks(text)
                 p0 == IF parsed.ok THEN parsed.val ELSE FallbackPlan
             IN IF IsEmptyPlan(p0)
                THEN /\ plan' = p0 /\ pc' = "refine"
                     /\ UNCHANGED <<events, outcome, todoTools, todoRuns, tools, manifests,
                                    created, createdFiles, runs, runIndex, lastRun, cur,
                                    calls, memory, memFile, answer, clock>>
                ELSE AcceptPlan(p0)
  /\ UNCHANGED <<envVars, disk, sbVars>>

APlan == APlanOf(Plans)

\* lines 75-82: the reply to the refinement call
ARefineOf(P) ==
  /\ pc = "refine"
  /\ \/ Fault /\ Throw /\ UNCHANGED events
     \/ /\ UNCHANGED faultsLeft
        /\ \E text \in Texts(P) :
             LET parsed == ParseJsonBlocks(text)
             IN AcceptPlan(IF parsed.ok THEN parsed.val ELSE plan)
  /\ UNCHANGED <<envVars, disk, sbVars>>
ARefine == ARefineOf(Plans)

\* line 106: t.id || slug(t.name) + '-' + Date.now()
ToolId(t, now) == IF t.id # "" THEN t.id ELSE t.name \o "-" \o ToString(now)

\* lines 109-120: the manifest given to saveTool, with its defaults
ManifestOf(t, toolId) ==
  [id |-> toolId, name |-> t.name,
   language |-> IF t.language = "" THEN "node" ELSE t.language,
   entry |-> IF t.entry = <<>> THEN <<"index.mjs">> ELSE t.entry]

\* lines 104-126: one iteration of the createTools loop
AMaterialize ==
  /\ pc = "materialize"
  /\ LET t == Head(todoTools) IN
     \E adv \in (IF t.id = "" THEN {0, 1} ELSE {0}) :
       LET now == Min(clock + adv, MaxClock)
           toolId == ToolId(t, now)
           m == ManifestOf(t, toolId)
           written == disk \cup WriteToolCode(toolId, t.files)
       IN /\ clock' = now
          /\ \/ \* t is null: reading t.id throws inside the try block
                /\ t.null
                /\ memory' = AddHistory(memory, "assistant", "failed")
                /\ UNCHANGED <<faultsLeft, disk, manifests, tools, created, createdFiles>>
             \/ \* writeToolCode throws
                /\ ~t.null
                /\ Fault
                /\ memory' = AddHistory(memory, "assistant", "failed")
                /\ UNCHANGED <<disk, manifests, tools, created, createdFiles>>
             \/ \* saveTool throws: the manifest does not validate
                /\ ~t.null /\ ~ManifestValid(m)
                /\ disk' = written
                /\ createdFiles' = Put(createdFiles, toolId, t.files)
                /\ memory' = AddHistory(memory, "assistant", "failed")
                /\ UNCHANGED <<faultsLeft, manifests, tools, created>>
             \/ /\ ~t.null /\ ManifestValid(m)
                /\ disk' = written \cup {Append(ToolsDir(toolId), "manifest.json")}
                /\ createdFiles' = Put(createdFiles, toolId, t.files)
                /\ manifests' = Put(manifests, toolId, m)
                /\ tools' = Put(tools, toolId, m)
                /\ created' = Append(created, toolId)
                /\ UNCHANGED <<faultsLeft, memory>>
  /\ todoTools' = Tail(todoTools)
  /\ pc' = IF Tail(todoTools) # <<>> THEN "materialize"
           ELSE IF todoRuns # <<>> THEN "runchain" ELSE "answer"
  /\ UNCHANGED <<envVars, sbVars, events, outcome, plan, todoRuns, runs, runIndex, lastRun,
                 cur, calls, memFile, answer>>

\* String(r.code ?? ''): null renders as the empty string
CodeString(code) == IF IsInteger(code) THEN <<ToString(code.v)>> ELSE <<>>

\* a replacement that leaves the name of the expression in place
ExpandPartVerbatim(part) == <<part.id>>
\* lines 133-143: the replacement of one ${EXPR}
ExpandPart(part) ==
  CASE part.k = "lit" -> <<part.id>>
    [] part.k = "last" -> IF lastRun = <<>> THEN <<>> ELSE lastRun[1].stdout
    [] part.k = "runs" ->
         IF part.id \notin DOMAIN runIndex THEN <<>>
         ELSE LET r == runIndex[part.id] IN
              CASE part.f = "stdout" -> r.stdout
                [] part.f = "stderr" -> r.stderr
                [] part.f = "code" -> CodeString(r.code)
                [] OTHER -> <<>>
    [] OTHER -> <<>>

RECURSIVE ExpandParts(_)
ExpandParts(parts) ==
  IF parts = <<>> THEN <<>> ELSE ExpandPart(Head(parts)) \o ExpandParts(Tail(parts))

\* lines 131-144: expand; the result as a sequence of tokens
Expand(tpl) == IF ~tpl.isString THEN tpl.parts ELSE ExpandParts(tpl.parts)

\* lines 153-158: the stdin of the first attempt
FirstStdin(call) ==
  IF call.hasStdin THEN Expand(call.stdin)
  ELSE IF lastRun = <<>> THEN <<>> ELSE lastRun[1].stdout

\* a template as the plan writes it: each ${EXPR} stays in the text
RawPart(part) ==
  IF part.k = "lit" THEN part.id
  ELSE "${" \o part.k \o "." \o part.id \o "." \o part.f \o "}"
Raw(tpl) ==
  IF ~tpl.isString THEN tpl.parts ELSE [i \in 1..Len(tpl.parts) |-> RawPart(tpl.parts[i])]

\* a patch retry that is given the stdin of the first attempt once more
PatchStdinOfFirstAttempt(call) == FirstStdin(call)
\* line 236: stdin: call.stdin || '', as written in the plan
PatchStdin(call) == IF call.hasStdin THEN Raw(call.stdin) ELSE <<>>

RunRec(id, kind, reason, args, res) ==
  [id |-> id, kind |-> kind, reason |-> reason, args |-> args,
   code |-> res.code, stdout |-> res.stdout, stderr |-> res.stderr]

\* a loop that takes up the same plan.run entry once more
SameEntryAgain == todoRuns' = todoRuns /\ pc' = "runchain"
\* the loop goes on to the next plan.run entry, or leaves the loop
Advance ==
  /\ todoRuns' = Tail(todoRuns)
  /\ pc' = IF Tail(todoRuns) # <<>> THEN "runchain" ELSE "answer"

\* line 163 and the like: entry: path.join('tools', id, t.entry)
EntryOf(id) == PathJoin(ToolsDir(id), tools[id].entry)

\* lines 148-163: the next plan.run entry up to its await sandbox.run
ARunCall ==
  /\ pc = "runchain" /\ NoLingering
  /\ LET call == Head(todoRuns) IN
     IF Lookup(tools, call.id) = "missing"
     THEN /\ runs' = Append(runs, RunRec(call.id, "error", "Tool not found", <<>>,
                                         Promise0.value))
          /\ Advance
          /\ UNCHANGED <<sb, events, cur, calls, outcome>>
     ELSE IF Lookup(tools, call.id) = "inherited"
     THEN \* t is a member of Object.prototype: t.entry is undefined and
          \* path.join('tools', id, undefined) throws a TypeError at line 163
          /\ Report([type |-> "runStart", id |-> call.id])
          /\ pc' = "done" /\ outcome' = "thrown"
          /\ UNCHANGED <<sb, cur, calls, runs, todoRuns>>
     ELSE /\ cur' = [call |-> call, id |-> call.id,
                     args |-> [i \in 1..Len(call.args) |-> Expand(call.args[i])],
                     stdin |-> FirstStdin(call), res |-> Promise0.value]
          /\ Report([type |-> "runStart", id |-> call.id])
          /\ sb' = SbCall(call.id, tools[call.id].language, EntryOf(call.id), TRUE, reporter)
          /\ calls' = [sandboxRuns |-> 1, patchAsks |-> 0]
          /\ pc' = "run1"
          /\ UNCHANGED <<runs, todoRuns, outcome>>
  /\ UNCHANGED <<envVars, disk, child, old, spawned, log, logErrors, cbOut, cbErr,
                 chunksLeft, faultsLeft, plan, todoTools, tools, manifests,
                 created, createdFiles, runIndex, lastRun, memory, memFile, answer, clock>>

\* lines 180 and 202: the stderr names a missing module of the tool's language
HeuristicMatch(language, stderr) ==
  \E i \in 1..Len(stderr) :
     stderr[i] = (IF language = "python" THEN "ModuleNotFoundError" ELSE "CannotFindModule")
\* lines 183 and 205: the file the heuristic writes
DepFile(id, language) ==
  Append(ToolsDir(id), IF language = "python" THEN "requirements.txt" ELSE "package.json")

\* line 232: the patch request goes to the planner
AskPatch ==
  /\ pc' = "patch"
  /\ calls' = [calls EXCEPT !.patchAsks = @ + 1]
  /\ UNCHANGED todoRuns

\* lines 190 and 215: the heuristic retry starts
HeuristicRetry ==
  /\ sb' = SbCall(cur.id, tools[cur.id].language, EntryOf(cur.id), TRUE, reporter)
  /\ calls' = [calls EXCEPT !.sandboxRuns = @ + 1]
  /\ pc' = "run2"
  /\ UNCHANGED todoRuns

\* lines 167-189 / 201-214: the initial run has resolved
AAfterRun1 ==
  /\ pc = "run1" /\ sb.phase = "resolved"
  /\ LET res == sb.result
         rec == RunRec(cur.id, "run", "", cur.args, res)
         language == tools[cur.id].language
     IN /\ runs' = Append(runs, rec)
        /\ runIndex' = Put(runIndex, cur.id, rec)
        /\ lastRun' = <<rec>>
        /\ Report([type |-> "runEnd", id |-> cur.id])
        /\ cur' = [cur EXCEPT !.res = res]
        /\ IF ~NonZero(res.code)
           THEN /\ Advance /\ sb' = [sb EXCEPT !.phase = "idle"]
                /\ UNCHANGED <<calls, disk, faultsLeft>>
           ELSE IF NetworkAllowed /\ HeuristicMatch(language, res.stderr)
           THEN \/ \* an fs error inside the try block is swallowed (line 227)
                   /\ Fault /\ AskPatch /\ sb' = [sb EXCEPT !.phase = "idle"]
                   /\ UNCHANGED disk
                \/ /\ disk' = disk \cup {DepFile(cur.id, language)}
                   /\ HeuristicRetry
                   /\ UNCHANGED faultsLeft
           ELSE /\ AskPatch /\ sb' = [sb EXCEPT !.phase = "idle"]
                /\ UNCHANGED <<disk, faultsLeft>>
  /\ UNCHANGED <<envVars, child, old, spawned, log, logErrors, cbOut, cbErr, chunksLeft,
                 outcome, plan, todoTools, tools, manifests, created, createdFiles, memory,
                 memFile, answer, clock>>

\* a rejected sandbox.run outside any try block leaves runAgentLoop (lines 163, 236)
ARunRejected ==
  /\ pc \in {"run1", "run3"} /\ sb.phase = "rejected"
  /\ sb' = [sb EXCEPT !.phase = "idle"]
  /\ Throw
  /\ UNCHANGED <<envVars, disk, child, old, spawned, log, logErrors, cbOut, cbErr,
                 chunksLeft, faultsLeft, events>>

\* lines 194-199 / 219-224 and 227-230: the heuristic retry has settled
AAfterRun2 ==
  /\ pc = "run2"
  /\ \/ /\ sb.phase = "rejected"
        /\ AskPatch
        /\ UNCHANGED <<runs, runIndex, lastRun, events, cur>>
     \/ /\ sb.phase = "resolved"
        /\ LET retry == sb.result
               reason == IF tools[cur.id].language = "python"
                         THEN "auto-install-python" ELSE "auto-install-node"
           IN /\ runs' = Append(runs, RunRec(cur.id, "retry", reason, <<>>, retry))
              /\ runIndex' = Put(runIndex, cur.id, RunRec("", "raw", "", <<>>, retry))
              /\ lastRun' = <<RunRec("", "raw", "", <<>>, retry)>>
              /\ Report([type |-> "runEnd", id |-> cur.id])
              /\ cur' = [cur EXCEPT !.res = retry]
              /\ IF NonZero(retry.code) THEN AskPatch ELSE (Advance /\ UNCHANGED calls)
  /\ sb' = [sb EXCEPT !.phase = "idle"]
  /\ UNCHANGED <<envVars, disk, child, old, spawned, log, logErrors, cbOut, cbErr,
                 chunksLeft, faultsLeft, outcome, plan, todoTools, tools, manifests,
                 created, createdFiles, memory, memFile, answer, clock>>

PatchObjs == {[hasFiles |-> FALSE, files |-> {}]}
             \cup {[hasFiles |-> TRUE, files |-> F] : F \in PatchFiles}

\* lines 236-239: the retry after a model patch; callbacks only when interactive
PatchRetry ==
  /\ sb' = SbCall(cur.id, tools[cur.id].language, EntryOf(cur.id), interactive, FALSE)
  /\ cur' = [cur EXCEPT !.stdin = PatchStdin(cur.call)]
  /\ calls' = [calls EXCEPT !.sandboxRuns = @ + 1]
  /\ pc' = "run3"
  /\ UNCHANGED todoRuns

\* lines 232-236: the reply to the patch request
APatch ==
  /\ pc = "patch" /\ NoLingering
  /\ \/ Fault /\ Throw /\ UNCHANGED <<disk, sb>>
     \/ \E text \in Texts(PatchObjs) :
          LET fixJson == ParseJsonBlocks(text) IN
          IF fixJson.ok /\ fixJson.val.hasFiles
          THEN \/ \* writeToolCode throws
                  Fault /\ Throw /\ UNCHANGED <<disk, sb>>
               \/ /\ disk' = disk \cup WriteToolCode(cur.id, fixJson.val.files)
                  /\ PatchRetry
                  /\ UNCHANGED <<faultsLeft, outcome, plan, todoTools, tools, manifests,
                                 created, createdFiles, runs, runIndex, lastRun, memory,
                                 memFile, answer, clock>>
          ELSE /\ Advance
               /\ UNCHANGED <<disk, sb, faultsLeft, outcome, plan, todoTools, tools,
                              manifests, created, createdFiles, runs, runIndex, lastRun,
                              cur, calls, memory, memFile, answer, clock>>
  /\ UNCHANGED <<envVars, child, old, spawned, log, logErrors, cbOut, cbErr, chunksLeft,
                 events>>

\* a repair loop that asks for another patch while the retry still fails
AfterPatchRetryLoop ==
  IF NonZero(sb.result.code) THEN AskPatch ELSE (Advance /\ UNCHANGED calls)
\* lines 241-244: after the patch retry the loop goes on, whatever its exit code
AfterPatchRetry == Advance /\ UNCHANGED calls

\* line 240: the patch retry has resolved
AAfterRun3 ==
  /\ pc = "run3" /\ sb.phase = "resolved"
  /\ runs' = Append(runs, RunRec(cur.id, "retry", "", <<>>, sb.result))
  /\ sb' = [sb EXCEPT !.phase = "idle"]
  /\ AfterPatchRetry
  /\ UNCHANGED <<envVars, disk, child, old, spawned, log, logErrors, cbOut, cbErr,
                 chunksLeft, faultsLeft, events, outcome, plan, todoTools, tools, manifests,
                 created, createdFiles, runIndex, lastRun, cur, memory, memFile,
                 answer, clock>>

\* line 246: the result object
ResultOf(ans) ==
  [plan |-> plan.plan, created |-> created, createdFiles |-> createdFiles, runs |-> runs,
   tools |-> DOMAIN tools, answer |-> ans]

\* lines 248-263: the reply to the answer call (an error is swallowed), the
\* history entry and the run record
AAnswer ==
  /\ pc = "answer" /\ NoLingering
  /\ \E ans \in {<<>>, <<"text">>} :
       /\ IF ans = <<>> THEN Fault ELSE UNCHANGED faultsLeft
       /\ answer' = ans
       /\ memory' = [AddHistory(memory, "assistant", "result")
                       EXCEPT !.runs = Append(@, [goal |-> "goal", result |-> ResultOf(ans)])]
  /\ pc' = "persist"
  /\ UNCHANGED <<envVars, disk, sbVars, events, outcome, plan, todoTools, todoRuns, tools,
                 manifests, created, createdFiles, runs, runIndex, lastRun, cur, calls,
                 memFile, clock>>

\* lines 264-266: saveMemory, the result event, return
APersist ==
  /\ pc = "persist" /\ NoLingering
  /\ \/ Fault /\ Throw /\ UNCHANGED events
     \/ /\ memFile' = SaveMemory(memory)
        /\ Report([type |-> "result", id |-> ""])
        /\ pc' = "done" /\ outcome' = "returned"
        /\ UNCHANGED <<faultsLeft, plan, todoTools, todoRuns, tools, manifests, created,
                       createdFiles, runs, runIndex, lastRun, cur, calls, memory, answer,
                       clock>>
  /\ UNCHANGED <<envVars, disk, sbVars>>

\* the steps of the loop around its planning calls
LoopStep ==
  \/ AStart \/ AMaterialize
  \/ ARunCall \/ AAfterRun1 \/ AAfterRun2 \/ ARunRejected \/ APatch \/ AAfterRun3
  \/ AAnswer \/ APersist

AgentStep ==
  \/ APlan \/ ARefine
  \/ LoopStep

Next ==
  \/ AgentStep
  \/ SandboxStep

Spec == Init /\ [][Next]_vars

\* ------------------------------------------------------ a chain of two runs
\* a goal for which the planner proposes one tool and runs it twice, the second
\* run without a stdin of its own (pipe chaining, lines 153-158)
ChainPlans ==
  { [plan |-> "chain", createTools |-> <<SpecA>>,
     run |-> <<CallIn("a", <<Lit("x")>>, Lit("in")), Call("a")>>] }

ChainInit == Init /\ cfgNetwork = "true" /\ ~docker /\ reporter

ChainNext ==
  \/ APlanOf(ChainPlans) \/ ARefineOf(ChainPlans)
  \/ LoopStep
  \/ SandboxStep

ChainSpec == ChainInit /\ [][ChainNext]_vars

\* ------------------------------------------- concurrent requests and memory
\* what the memory file may hold when the server starts
Mem0 == [tools |-> {"t0"}, history |-> <<"u0", "r0">>, runs |-> <<"g0">>]

MemoryInit ==
  /\ LoopInit /\ cfgNetwork = "false" /\ ~docker /\ reporter
  /\ file \in {NoFile, OnFile(Stringify(Mem0))}
  /\ req = [r \in Requests |-> Req0]
  /\ lastSaver = 0

loopVars == <<cfgNetwork, docker, reporter, interactive, disk, sbVars, events, faultsLeft,
              pc, outcome, plan, todoTools, todoRuns, tools, created, createdFiles, runs,
              runIndex, lastRun, cur, calls, memory, memFile, answer, clock, summary>>

\* a loadMemory that keeps the tools map stored in the file
LoadedAsStored(data) == data
\* loadMemory lines 16-18: the file's data over the defaults, tools from disk
LoadedMemory(data) ==
  [tools |-> DOMAIN LoadTools, history |-> data.history, runs |-> data.runs]

NoSaveBegun == lastSaver = 0 /\ \A q \in Requests : req[q].pc # "save-write"

\* loadMemory line 13: fs.pathExists(file)
LExists(r) ==
  /\ req[r].pc = "idle"
  /\ req' = [req EXCEPT ![r].pc = IF file.exists THEN "read" ELSE "ensure"]
  /\ UNCHANGED <<file, lastSaver, manifests, loopVars>>

\* loadMemory lines 14-19: readJson throws on a text that does not parse
LRead(r) ==
  /\ req[r].pc = "read"
  /\ LET data == ParseJson(file.text) IN
     req' = [req EXCEPT ![r] =
               IF data.ok
               THEN [@ EXCEPT !.pc = "loaded", !.read = TRUE, !.seen = file.text,
                              !.cat = DOMAIN LoadTools,
                              !.mem = LoadedMemory(data.val),
                              !.loaded = LoadedMemory(data.val),
                              !.early = NoSaveBegun]
               ELSE [@ EXCEPT !.pc = "failed", !.read = TRUE, !.seen = file.text]]
  /\ UNCHANGED <<file, lastSaver, manifests, loopVars>>

\* loadMemory line 21: fs.ensureFile(file) creates the file, empty, if missing
LEnsure(r) ==
  /\ req[r].pc = "ensure"
  /\ file' = IF file.exists THEN file ELSE OnFile(<<>>)
  /\ req' = [req EXCEPT ![r].pc = "init-open"]
  /\ UNCHANGED <<lastSaver, manifests, loopVars>>

\* loadMemory line 22, writeJson(file, defaultMemory()): the open ...
LInitOpen(r) ==
  /\ req[r].pc = "init-open"
  /\ file' = OpenTruncate
  /\ req' = [req EXCEPT ![r].pc = "init-write"]
  /\ UNCHANGED <<lastSaver, manifests, loopVars>>

\* ... and the write; lines 23-26
LInitWrite(r) ==
  /\ req[r].pc = "init-write"
  /\ file' = OnFile(WriteAtStart(Stringify(DefaultMemory), file.text))
  /\ req' = [req EXCEPT ![r].pc = "loaded", ![r].cat = DOMAIN LoadTools,
                        ![r].mem = [DefaultMemory EXCEPT !.tools = DOMAIN LoadTools],
                        ![r].loaded = [DefaultMemory EXCEPT !.tools = DOMAIN LoadTools],
                        ![r].early = NoSaveBegun]
  /\ UNCHANGED <<lastSaver, manifests, loopVars>>

\* GET /api/status, /api/tools (server.mjs lines 36-44): loadMemory and no more
StatusDone(r) ==
  /\ req[r].pc = "loaded"
  /\ req' = [req EXCEPT ![r].pc = "done"]
  /\ UNCHANGED <<file, lastSaver, manifests, loopVars>>

\* runAgentLoop of request r up to its saveMemory: the history entries of lines
\* 64, 83, 124 and 262, the run record of line 263, a tool saved or not
RunGoal(r) ==
  /\ req[r].pc = "loaded"
  /\ \E makes \in BOOLEAN, failed \in BOOLEAN :
       /\ manifests' = IF makes THEN Put(manifests, "a", ManifestOf(SpecA, "a"))
                       ELSE manifests
       /\ req' = [req EXCEPT
            ![r].pc = "persist", ![r].ran = TRUE,
            ![r].mem.history = @ \o <<"u" \o ToString(r), "p" \o ToString(r)>>
                                 \o (IF failed THEN <<"f" \o ToString(r)>> ELSE <<>>)
                                 \o <<"r" \o ToString(r)>>,
            ![r].mem.runs = Append(@, "g" \o ToString(r))]
  /\ UNCHANGED <<file, lastSaver, loopVars>>

\* saveMemory line 36, writeJson(file, toPersist): the open ...
SOpen(r) ==
  /\ req[r].pc = "persist"
  /\ file' = OpenTruncate
  /\ req' = [req EXCEPT ![r].pc = "save-write"]
  /\ UNCHANGED <<lastSaver, manifests, loopVars>>

\* ... and the write
SWrite(r) ==
  /\ req[r].pc = "save-write"
  /\ file' = OnFile(WriteAtStart(Stringify(SaveMemory(req[r].mem)), file.text))
  /\ req' = [req EXCEPT ![r].pc = "done"]
  /\ lastSaver' = r
  /\ UNCHANGED <<manifests, loopVars>>

MemoryNext ==
  \E r \in Requests :
     \/ LExists(r) \/ LRead(r) \/ LEnsure(r) \/ LInitOpen(r) \/ LInitWrite(r)
     \/ StatusDone(r) \/ RunGoal(r) \/ SOpen(r) \/ SWrite(r)

MemorySpec == MemoryInit /\ [][MemoryNext]_vars

\* ------------------------------------------------- tool ids that collide
\* ToolSpecs that name a tool of the catalog, or one another
SpecT0 == [id |-> "t0", name |-> "T", language |-> "node", entry |-> <<"index.mjs">>,
           files |-> {Rel(<<"main.py">>)}, null |-> FALSE]
SpecA2 == [id |-> "a", name |-> "A2", language |-> "node", entry |-> <<"index.mjs">>,
           files |-> {Rel(<<"main.py">>)}, null |-> FALSE]
\* goals for which the planner proposes tools and no run
CreatePlans ==
  { [plan |-> "again t0", createTools |-> <<SpecT0>>, run |-> <<>>],
    [plan |-> "twice a", createTools |-> <<SpecA, SpecA2>>, run |-> <<>>],
    [plan |-> "twice n", createTools |-> <<SpecN, SpecN>>, run |-> <<>>] }

CreateInit == Init /\ ~docker

CreateNext ==
  \/ APlanOf(CreatePlans) \/ ARefineOf(CreatePlans)
  \/ AStart \/ AMaterialize \/ AAnswer \/ APersist

CreateSpec == CreateInit /\ [][CreateNext]_vars

\* ------------------------------------------------ the history of a Memory
\* goals for which the planner proposes no run: nothing, or one tool whose
\* manifest does not validate
HistoryPlans ==
  { [plan |-> "none", createTools |-> <<>>, run |-> <<>>],
    [plan |-> "make c", createTools |-> <<SpecC>>, run |-> <<>>] }

HistoryInit == Init /\ cfgNetwork = "false" /\ ~docker /\ ~reporter /\ ~interactive

\* addHistory lines 39-41, called on the Memory object the loop works on, by up
\* to MaxHistory calls outside the loop
HAdd ==
  /\ Cardinality({i \in 1..Len(memory.history) : memory.history[i].content = "turn"})
        < MaxHistory
  /\ \E role \in {"user", "assistant"} : memory' = AddHistory(memory, role, "turn")
  /\ UNCHANGED <<cfgNetwork, docker, reporter, interactive, storeVars, summary, disk,
                 sbVars, events, faultsLeft, pc, outcome, plan, todoTools, todoRuns, tools,
                 manifests, created, createdFiles, runs, runIndex, lastRun, cur, calls,
                 memFile, answer, clock>>

\* summarizeHistory lines 43-49, called with a positive maxTurns (the loop's
\* one call, at line 42, leaves it at its default of 40)
HSummarize ==
  /\ \E maxTurns \in 1..MaxTurns :
        summary' = [maxTurns |-> maxTurns, out |-> SummarizeHistory(memory, maxTurns)]
  /\ UNCHANGED <<cfgNetwork, docker, reporter, interactive, storeVars, disk, sbVars,
                 events, faultsLeft, agentVars>>

HistoryNext ==
  \/ APlanOf(HistoryPlans) \/ ARefineOf(HistoryPlans)
  \/ AStart \/ AMaterialize \/ AAnswer \/ APersist
  \/ HAdd \/ HSummarize

HistorySpec == HistoryInit /\ [][HistoryNext]_vars

\* ------------------------------------------------- Sandbox.run on its own
\* one Sandbox.run call awaited by a caller that does nothing else
SandboxInit ==
  /\ cfgNetwork \in {"true", "false", "absent"}
  /\ docker \in BOOLEAN
  /\ interactive = FALSE /\ reporter = TRUE
  /\ disk = Disk0
  /\ manifests = [i \in {"t0"} |-> T0]
  /\ \E language \in Languages :
       sb = [Sb0 EXCEPT !.phase = "ensure", !.n = 1, !.id = "t0", !.language = language,
                        !.entry = <<"tools", "t0", "main.py">>, !.hasOn = TRUE,
                        !.report = TRUE]
  /\ child = NoChild /\ old = NoChild /\ spawned = <<>>
  /\ log = <<>> /\ logErrors = 0 /\ cbOut = <<>> /\ cbErr = <<>>
  /\ events = <<[type |-> "runStart", id |-> "t0"]>>
  /\ chunksLeft = MaxChunks + 1 /\ faultsLeft = MaxFaults
  /\ pc = "caller" /\ outcome = "running"
  /\ plan = FallbackPlan /\ todoTools = <<>> /\ todoRuns = <<>>
  /\ tools = [i \in {"t0"} |-> T0] /\ created = <<>> /\ createdFiles = EmptyMap
  /\ runs = <<>> /\ runIndex = EmptyMap /\ lastRun = <<>>
  /\ cur = Cur0 /\ calls = Calls0
  /\ memory = [tools |-> {"t0"}, history |-> <<>>, runs |-> <<>>]
  /\ memFile = [tools |-> {}, history |-> <<>>, runs |-> <<>>]
  /\ answer = <<>>
  /\ clock = 0
  /\ summary = NoSummary
  /\ file = NoFile /\ req = [r \in Requests |-> Req0] /\ lastSaver = 0

\* the continuation of `await sandbox.run(...)` in the caller
CallerResumes ==
  /\ pc = "caller" /\ sb.phase = "resolved"
  /\ sb' = [sb EXCEPT !.phase = "idle"]
  /\ UNCHANGED <<envVars, disk, child, old, spawned, log, logErrors, cbOut, cbErr,
                 chunksLeft, faultsLeft, events, agentVars>>

SandboxNext == SandboxStep \/ CallerResumes

\* the event loop delivers what is due: the timer, the exit of a killed child,
\* the events still in the pipes, and the continuations of settled awaits
SandboxFairness ==
  /\ WF_vars(SbEnsure) /\ WF_vars(SbProbe)
  /\ WF_vars(TimerFire) /\ WF_vars(ChildKilledExit)
  /\ WF_vars(LateData) /\ WF_vars(LateExit)

SandboxSpec == SandboxInit /\ [][SandboxNext]_vars /\ SandboxFairness

\* ================================================================ claims
Count(type, id) ==
  Cardinality({i \in 1..Len(events) : events[i].type = type /\ events[i].id = id})
EventIds == {events[i].id : i \in 1..Len(events)} \ {""}

\* C1: runAgentLoop never throws: whatever the planner and the file system do,
\* the call ends by returning a result.
C1_NeverThrows == outcome # "thrown"

\* the next plan.run entry names no tool of the catalog, and the loop takes it up
MissingToolStep ==
  /\ pc = "runchain" /\ Head(todoRuns).id \notin DOMAIN tools
  /\ (pc' # pc \/ todoRuns' # todoRuns)
\* C11: a plan.run entry whose id is not in the catalog adds the one record
\* {id, error: 'Tool not found'} to the runs, starts no sandbox run, leaves
\* lastRun and the run index alone, and the loop goes on with the next entry.
C11_ToolNotFound ==
  [][MissingToolStep =>
       /\ runs' = Append(runs, RunRec(Head(todoRuns).id, "error", "Tool not found",
                                      <<>>, Promise0.value))
       /\ sb' = sb /\ spawned' = spawned
       /\ lastRun' = lastRun /\ runIndex' = runIndex
       /\ todoRuns' = Tail(todoRuns)
       /\ outcome' = "running"
       /\ pc' = IF Tail(todoRuns) # <<>> THEN "runchain" ELSE "answer"]_vars

\* the stdout of the most recent run in rs that exited with code 0, or the empty
\* string when there is none
RECURSIVE LastOkStdout(_)
LastOkStdout(rs) ==
  IF rs = <<>> THEN <<>>
  ELSE LET r == rs[Len(rs)] IN
       IF r.kind # "error" /\ r.code = JsNum(0) THEN r.stdout
       ELSE LastOkStdout(SubSeq(rs, 1, Len(rs) - 1))
\* C12: a RunCall without stdin gets the stdout of the most recent earlier run
\* that succeeded (empty when there is none); a RunCall whose stdin is the empty
\* string gets empty stdin.
C12_StdinDefault ==
  pc = "run1" =>
     IF cur.call.hasStdin
     THEN cur.call.stdin = Empty => cur.stdin = <<>>
     ELSE cur.stdin = LastOkStdout(runs)

\* C13: a planning call that fails or gives no parseable plan does not end the
\* loop; with the refinement giving no plan either the loop goes on with the
\* fallback plan, creating no tool and starting no sandbox run on its way to
\* Answer and Persist.
C13_FallbackPlan ==
  /\ [][pc = "plan" => outcome' # "thrown"]_vars
  /\ []((plan = FallbackPlan /\ pc \in {"answer", "persist", "done"}) =>
          (created = <<>> /\ runs = <<>> /\ sb.n = 0))

\* C14: a saveMemory that fails in the Persist step does not end the loop by an
\* exception: the failure goes to the reporter as an error event, the result
\* event is emitted and the result is returned.
C14_PersistFailureReported ==
  [][pc = "persist" =>
       /\ outcome' = "returned"
       /\ (reporter => events'[Len(events')].type = "result")
       /\ (faultsLeft' # faultsLeft =>
              \E i \in 1..Len(events') : events'[i].type = "error")]_vars

\* C15: the memory file is replaced atomically: no loadMemory ever reads an
\* empty or partly written memory.json.
C15_AtomicReplace ==
  \A r \in Requests : req[r].read => ParseJson(req[r].seen).ok

\* C16: when every loop loaded its Memory before any save began, the file left
\* after all have saved is the memory of the loop that saved last.
C16_LastWriterWins ==
  (\A r \in Requests : req[r].pc = "done" /\ req[r].ran /\ req[r].early) =>
     LET left == ParseJson(file.text) IN
     /\ left.ok
     /\ left.val.history = req[lastSaver].mem.history
     /\ left.val.runs = req[lastSaver].mem.runs

\* request r has loaded the text that the saveMemory of request w wrote
LoadedWhatWasSaved(r, w) ==
  /\ req[w].pc = "done" /\ req[w].ran
  /\ req[r].read /\ req[r].pc # "failed"
  /\ req[r].seen = Stringify(SaveMemory(req[w].mem))
C18_EntryExists ==
  \A i \in 1..Len(created) :
     LET id == created[i]
         file0 == PathJoin(ToolsDir(id), tools[id].entry)
     IN /\ file0 \in disk
        /\ Len(file0) > 2 /\ SubSeq(file0, 1, 2) = ToolsDir(id)

\* the plan is settled in this step (no planner call failed)
PlanSettles ==
  /\ pc \in {"plan", "refine"} /\ pc' \notin {"plan", "refine"}
  /\ faultsLeft' = faultsLeft
\* C19: the outcome does not depend on the reporter: with the same planner
\* replies the loop goes on after settling the plan, or throws, as it would
\* with no reporter.
C19_ReporterIndependent ==
  [][PlanSettles => outcome' = PlanOutcome(plan', interactive, FALSE)]_vars

\* the expressions expand knows: last.stdout, and runs.<id>.stdout|stderr|code
\* for an id with a recorded run
Known(part) ==
  \/ part.k = "last" /\ part.id = "" /\ part.f = ""
  \/ /\ part.k = "runs" /\ part.id \in DOMAIN runIndex
     /\ part.f \in {"stdout", "stderr", "code"}
\* the text of a template with every expression taken out
RECURSIVE Literals(_)
Literals(parts) ==
  IF parts = <<>> THEN <<>>
  ELSE (IF Head(parts).k = "lit" THEN <<Head(parts).id>> ELSE <<>>)
       \o Literals(Tail(parts))
NoneKnown(tpl) == \A i \in 1..Len(tpl.parts) : ~Known(tpl.parts[i])
ExpandedAsClaimed(tpl, out) ==
  IF ~tpl.isString THEN out = tpl.parts
  ELSE NoneKnown(tpl) => out = Literals(tpl.parts)
\* C20: expansion replaces every unknown ${EXPR} by the empty string, hands
\* back an input that is no string as it is, and changes neither lastRun, the
\* run index nor the runs.
C20_ExpandUnknown ==
  /\ [](pc = "run1" =>
          /\ \A i \in 1..Len(cur.call.args) :
                ExpandedAsClaimed(cur.call.args[i], cur.args[i])
          /\ cur.call.hasStdin => ExpandedAsClaimed(cur.call.stdin, cur.stdin))
  /\ [][(pc = "runchain" /\ pc' = "run1") => UNCHANGED <<lastRun, runIndex, runs>>]_vars
\* a call whose arguments hold unknown expressions and a number has been expanded
C20_Witness ==
  /\ pc = "run1" /\ Len(cur.call.args) = 4
  /\ cur.call.args[2] = Mixed /\ cur.args[2] = <<"x", "y">>
  /\ ~cur.call.args[3].isString /\ cur.args[3] = <<"5">>
  /\ cur.args[4] = <<>>

\* C2: per RunCall the sandbox runs the tool's main program at most three
\* times (initial run, one heuristic retry, one patch retry), each Sandbox.run
\* spawning it at most once, and the planner is asked for a patch at most once.
C2_RepairBounded ==
  /\ calls.sandboxRuns <= 3
  /\ calls.patchAsks <= 1
  /\ Cardinality({i \in 1..Len(spawned) : spawned[i].kind = "main"}) <= 1
\* the third run of a call has resolved with a failure, after one patch request
C2_Witness ==
  /\ pc = "run3" /\ sb.phase = "resolved" /\ NonZero(sb.result.code)
  /\ calls.sandboxRuns = 3 /\ calls.patchAsks = 1

\* C3: for each id the reporter never has more runEnd than runStart events, and
\* has as many of each when the loop returns.
C3_EventsPaired ==
  \A id \in EventIds :
     /\ Count("runEnd", id) <= Count("runStart", id)
     /\ outcome = "returned" => Count("runEnd", id) = Count("runStart", id)

\* the index of the last runStart/runEnd of id before event i, 0 if none
LastBracket(i, id) ==
  LET S == {j \in 1..(i - 1) : events[j].id = id
                              /\ events[j].type \in {"runStart", "runEnd"}}
  IN IF S = {} THEN 0 ELSE CHOOSE j \in S : \A k \in S : k <= j
\* C4: every runChunk(id) comes after a runStart(id) that no runEnd(id) has
\* closed yet.
C4_ChunksInsideRun ==
  \A i \in 1..Len(events) :
     events[i].type = "runChunk" =>
        LET j == LastBracket(i, events[i].id)
        IN j > 0 /\ events[j].type = "runStart"

SameChild == child'.n = child.n /\ child'.kind = child.kind
\* C5: once Sandbox.run has spawned a child the call resolves, whether the
\* child exits, fails to start or has to be killed by the timer; and the
\* promise of a child, once settled, keeps its value when a second handler runs.
C5_RunResolves ==
  /\ [](sb.phase \in {"install", "main"} => <>(sb.phase = "resolved"))
  /\ [][(child.promise.settled /\ SameChild) => child'.promise = child.promise]_vars
\* the run has resolved after the timer killed the child
C5_Witness == sb.phase = "resolved" /\ child.kind = "main" /\ child.killed

\* C6: the code of every RunResult is an integer.
C6_CodeIsInteger ==
  /\ sb.phase = "resolved" => IsInteger(sb.result.code)
  /\ \A i \in 1..Len(runs) : runs[i].kind # "error" => IsInteger(runs[i].code)

\* C7: the stdout (stderr) of the result of Sandbox.run is the concatenation of
\* the chunks given to onStdout (onStderr) during the call.
C7_ResultIsChunks ==
  (sb.phase = "resolved" /\ sb.hasOn) =>
     (sb.result.stdout = cbOut /\ sb.result.stderr = cbErr)

IsStdoutTok(tok) == tok = "out"
IsStderrTok(tok) == tok \in {"ModuleNotFoundError", "CannotFindModule", ErrText}
\* C8: when Sandbox.run has resolved, exec.log holds exactly the stdout and
\* stderr of the tool in arrival order, and no write was attempted on a log
\* stream after its end.
C8_LogExact ==
  /\ logErrors = 0
  /\ sb.phase = "resolved" =>
       /\ SelectSeq(log, IsStdoutTok) = sb.result.stdout
       /\ SelectSeq(log, IsStderrTok) = sb.result.stderr
       /\ Len(log) = Len(sb.result.stdout) + Len(sb.result.stderr)

HasDotDot(segs) == \E i \in 1..Len(segs) : segs[i] = ".."
\* C10: every file written is inside a tool directory tools/<id>/, and a file
\* key that is absolute or has a '..' segment is rejected (nothing is written
\* for it).
C10_WritesInsideToolDir ==
  /\ \A p \in disk : Len(p) >= 3 /\ p[1] = "tools" /\ p[2] # ".."
  /\ \A id \in DOMAIN createdFiles : \A f \in createdFiles[id] :
        (f.abs \/ HasDotDot(f.segs)) => FileTarget(id, f) \notin disk

\* the runs of tool id recorded in result.runs, by position
RunsOf(id) == {i \in 1..Len(runs) : runs[i].id = id /\ runs[i].kind # "error"}
AllRuns == {i \in 1..Len(runs) : runs[i].kind # "error"}
Latest(S) == CHOOSE i \in S : \A j \in S : j <= i
SameOutput(a, b) == a.code = b.code /\ a.stdout = b.stdout /\ a.stderr = b.stderr
\* C21: after every sandbox run of a tool (initial run, heuristic retry, patch
\* retry) the per-tool index holds the output of the last run recorded for that
\* tool in result.runs, and lastRun holds the output of the last run recorded.
C21_IndexIsLatestRun ==
  /\ \A id \in {runs[i].id : i \in AllRuns} :
        /\ id \in DOMAIN runIndex
        /\ SameOutput(runIndex[id], runs[Latest(RunsOf(id))])
  /\ AllRuns # {} =>
        /\ lastRun # <<>>
        /\ SameOutput(lastRun[1], runs[Latest(AllRuns)])

\* C22: the patch retry is given the stdin as the plan's RunCall writes it,
\* unexpanded (empty when the RunCall has none), and the expanded args of the
\* first attempt of the same call.
C22_PatchRetryInput ==
  pc = "run3" =>
     /\ cur.stdin = (IF cur.call.hasStdin THEN Raw(cur.call.stdin) ELSE <<>>)
     /\ LET first == Latest({i \in RunsOf(cur.id) : runs[i].kind = "run"})
        IN cur.args = runs[first].args
\* a patch retry of a call whose stdin is a template that expanded to the exit
\* code of the first attempt
C22_Witness ==
  /\ pc = "run3"
  /\ cur.call.stdin = Tpl("runs", "b", "code")
  /\ cur.stdin = <<"${runs.b.code}">>
  /\ cur.args = <<<<>>>>

\* C23: a RunCall whose initial run or whose heuristic retry exits with code 0
\* gets no patch request and no rewritten file; a patch is requested exactly
\* when the latest run is still non-zero after the heuristic stage.
C23_PatchOnlyOnFailure ==
  [][/\ calls'.patchAsks = calls.patchAsks + 1 => cur'.res.code # JsNum(0)
     /\ (pc \in {"run1", "run2"} /\ pc' \in {"runchain", "answer"}) =>
           /\ cur'.res.code = JsNum(0)
           /\ calls'.patchAsks = 0
           /\ disk' = disk
     /\ (pc = "patch" /\ disk' # disk) => cur.res.code # JsNum(0)]_vars
\* the heuristic retry has exited with code 0 and the call is over without a
\* patch request
C23_Witness ==
  /\ pc = "answer" /\ calls.sandboxRuns = 2 /\ calls.patchAsks = 0
  /\ cur.res.code = JsNum(0)
  /\ Len(runs) = 2 /\ runs[1].code = JsNum(1) /\ runs[2].code = JsNum(0)

MaterializeFails ==
  /\ pc = "materialize"
  /\ (pc' # pc \/ todoTools' # todoTools)
  /\ LET t == Head(todoTools) IN
       \/ t.null
       \/ faultsLeft' # faultsLeft
       \/ ManifestOf(t, "id").language \notin {"python", "node"}
FailedEntries(m) ==
  Cardinality({i \in 1..Len(m.history) : m.history[i].content = "failed"})
\* C25: a ToolSpec that fails to materialize appends exactly one assistant
\* history entry, puts no tool id into the in-memory catalog or into
\* result.created, and the loop goes on with the next ToolSpec.
C25_FailedToolSkipped ==
  [][MaterializeFails =>
       /\ memory'.history = Append(memory.history,
                                   [role |-> "assistant", content |-> "failed"])
       /\ tools' = tools /\ created' = created
       /\ todoTools' = Tail(todoTools)
       /\ outcome' = outcome
       /\ pc' = IF Tail(todoTools) # <<>> THEN "materialize"
                ELSE IF todoRuns # <<>> THEN "runchain" ELSE "answer"]_vars
\* of three ToolSpecs the second failed the manifest validation, and the third
\* was created after it
C25_Witness ==
  /\ pc = "runchain" /\ plan.plan = "make b c n"
  /\ Len(created) = 2 /\ created[1] = "b"
  /\ "c" \notin DOMAIN tools
  /\ FailedEntries(memory) = 1

\* C26: per goal the planner is asked for a plan at most twice: the planning
\* request goes out once, at the start, and the refinement request once, exactly
\* when the first plan (parsed, or the fallback when nothing parsed) has no
\* createTools and no run; the plan the loop goes on with after a refinement is
\* the first plan unless the refinement's reply parsed to another one.
C26_PlanCalls ==
  [][/\ pc' = "plan" => pc \in {"start", "plan"}
     /\ pc' = "refine" => pc \in {"plan", "refine"}
     /\ (pc = "plan" /\ pc' # "plan" /\ faultsLeft' = faultsLeft) =>
           /\ plan' \in Plans \cup {FallbackPlan}
           /\ pc' = "refine" <=> (plan'.createTools = <<>> /\ plan'.run = <<>>)
     /\ (pc = "refine" /\ pc' # "refine") =>
           /\ pc' # "plan"
           /\ plan' = plan \/ (faultsLeft' = faultsLeft /\ plan' \in Plans)]_vars
\* the first reply parsed to a plan without actions and the refinement request
\* is with the planner
C26_Witness ==
  /\ pc = "refine" /\ plan.plan = "none"
  /\ plan.createTools = <<>> /\ plan.run = <<>>
  /\ Len(memory.history) = 1

IsPrefix(a, b) == Len(a) <= Len(b) /\ SubSeq(b, 1, Len(a)) = a
C28_PersistOnce ==
  [][/\ memory'.runs # memory.runs =>
           /\ pc = "answer" /\ pc' = "persist"
           /\ memory'.runs = Append(memory.runs, [goal |-> "goal", result |-> ResultOf(answer')])
     /\ memFile' # memFile =>
           /\ pc = "persist" /\ outcome' = "returned"
           /\ events' = IF reporter THEN Append(events, [type |-> "result", id |-> ""])
                        ELSE events
     /\ pc \in {"answer", "persist", "done"} =>
           /\ sb' = sb /\ spawned' = spawned /\ runs' = runs
           /\ Count("result", "") = 0 \/ pc = "done"
     /\ outcome' = "returned" =>
           /\ Len(memory'.runs) = 1
           /\ memFile'.runs = memory'.runs /\ memFile'.history = memory'.history
           /\ memory'.history[Len(memory'.history)].content = "result"]_vars
\* a call that ran a tool has returned, with the answer of the planner in its
\* result and the result event sent
C28_Witness ==
  /\ outcome = "returned" /\ reporter
  /\ Len(runs) >= 1 /\ runs[1].kind = "run"
  /\ answer # <<>>
  /\ memory.runs[1].result.runs = runs
  /\ events[Len(events)].type = "result"

\* C29: the tools map written to memory.json at the end of runAgentLoop
\* contains every tool id of result.created.
C29_SavedToolsHoldCreated ==
  outcome = "returned" => \A i \in 1..Len(created) : created[i] \in memFile.tools

\* C30: the ids of result.created are pairwise distinct and each ToolSpec that
\* succeeds gets a tool directory of its own: its id is neither one created
\* earlier in the same plan nor one already in the catalog, and no manifest or
\* file that was there before is written over.
C30_OwnToolDirectory ==
  [][created' # created =>
       LET toolId == created'[Len(created')]
           t == Head(todoTools)
       IN /\ \A i \in 1..Len(created) : created[i] # toolId
          /\ toolId \notin DOMAIN tools
          /\ toolId \notin DOMAIN manifests
          /\ \A id \in DOMAIN manifests : manifests'[id] = manifests[id]
          /\ WriteToolCode(toolId, t.files) \cap disk = {}]_vars

\* the primary records of result.runs: run results and 'Tool not found' records
Primary == SelectSeq(runs, LAMBDA r : r.kind \in {"run", "error"})
\* the plan.run entries the loop has taken up so far
TakenUp == Len(plan.run) - Len(todoRuns) + (IF pc \in {"run2", "patch", "run3"} THEN 1 ELSE 0)
\* C31: result.runs holds, in plan order, exactly one primary record per
\* plan.run entry dealt with (a run result or a 'Tool not found' record); every
\* retry record follows directly after the primary record of the same id, with
\* at most two retry records per entry.
C31_RunsInPlanOrder ==
  outcome # "thrown" =>
    /\ pc \notin {"start", "plan", "refine", "run1"} => Len(Primary) = TakenUp
    /\ pc \in {"answer", "persist"} \/ outcome = "returned" => Len(Primary) = Len(plan.run)
    /\ Len(Primary) <= Len(plan.run)
    /\ \A i \in 1..Len(Primary) : Primary[i].id = plan.run[i].id
    /\ \A i \in 1..Len(runs) :
          runs[i].kind = "retry" =>
             /\ i > 1 /\ runs[i - 1].id = runs[i].id /\ runs[i - 1].kind # "error"
             /\ runs[i - 1].kind = "retry" => (i > 2 /\ runs[i - 2].kind = "run")
\* a plan of two run entries is through: a 'Tool not found' record, then the
\* run of the second entry with its heuristic retry and its patch retry
C31_Witness ==
  /\ outcome = "returned" /\ plan.plan = "reuse t0"
  /\ Len(runs) = 4
  /\ runs[1].kind = "error" /\ runs[1].id = "ghost"
  /\ runs[2].kind = "run" /\ runs[2].id = "t0"
  /\ runs[3].kind = "retry" /\ runs[3].reason = "auto-install-python"
  /\ runs[4].kind = "retry" /\ runs[4].reason = ""

CreatedIds == {created[i] : i \in 1..Len(created)}
\* C32: every key of result.createdFiles is an id of result.created; a tool
\* whose creation failed has no entry in createdFiles and no files in the tools
\* directory.
C32_CreatedFilesOfCreated ==
  /\ DOMAIN createdFiles \subseteq CreatedIds
  /\ \A p \in disk :
        (Len(p) >= 2 /\ p[1] = "tools") => p[2] \in CreatedIds \cup {"t0"}

\* C33: within one runAgentLoop call at most one child process started by the
\* sandbox (dependency install, main run or retry) is alive at any time: a child
\* is spawned only after the previous one has exited or failed to start.
C33_OneChildAlive == ~(child.alive /\ old.alive)

\* the ids of the plan's ToolSpecs that were processed without being created
FailedIds ==
  {plan.createTools[i].id : i \in 1..(Len(plan.createTools) - Len(todoTools))}
     \ (CreatedIds \cup {""})
\* C34: no sandbox run of a plan starts before every createTools spec of the
\* plan has been processed; a tool created in the plan is in the catalog when
\* the runs start; and a run entry that names a tool whose creation failed, and
\* that is not in the catalog, is recorded as 'Tool not found'.
C34_RunsAfterCreation ==
  [][/\ (sb' # sb \/ runs' # runs) => todoTools = <<>>
     /\ pc = "runchain" => CreatedIds \subseteq DOMAIN tools
     /\ (/\ pc = "runchain" /\ (pc' # "runchain" \/ todoRuns' # todoRuns)
         /\ Head(todoRuns).id \in FailedIds
         /\ Head(todoRuns).id \notin DOMAIN tools) =>
           /\ runs' = Append(runs, RunRec(Head(todoRuns).id, "error", "Tool not found",
                                          <<>>, Promise0.value))
           /\ sb' = sb /\ outcome' = outcome]_vars

====
